---- MODULE Spec2Model ----
(***************************************************************************)
(* Evidence extraction and payload compaction of src/analysis.py.          *)
(*                                                                         *)
(* Python values are modelled as tagged records [t, v]:                    *)
(*   str   v = sequence of code points        None  v = <<>>               *)
(*   int   v = the integer                    bool  v = TRUE / FALSE       *)
(*   list  v = sequence of values                                          *)
(*   dict  v = sequence of items [k, v], in insertion order; the keys are  *)
(*             TLA+ strings, the values are tagged values                  *)
(***************************************************************************)
EXTENDS Integers, Sequences, FiniteSets, TLC

VARIABLES
    payload,                       \* the dict handed to _shrink_payload
    limit,                         \* its size budget (MAX_TOTAL_CHARS in build_messages)
    MAX_JS_FILES,                  \* module-level limits, read from the environment
    MAX_JS_EVIDENCE_PER_FILE,
    MAX_HTML_EVIDENCE_PER_BUCKET,
    MAX_STR_FIELD,
    cur,                           \* _shrink_payload's working copy
    it,                            \* iterations of `for _ in range(20)` completed
    pc,                            \* "call", "loop", "return", "sent"
    step,                          \* what the last iteration did
    run,                           \* 1: the call of build_messages, 2: a re-application
    first,                         \* the structure returned by run 1
    content,                       \* length of the user message of build_messages
    alias,                         \* cur and payload are one object: a write to cur shows in payload
    changed,                       \* history: the steps of this call's iterations that changed cur
    js_text,                       \* analyze_js: the script text
    evidences,                     \* analyze_js: the hits appended so far
    pat,                           \* analyze_js: index of the pattern being scanned
    pos,                           \* analyze_js: offset (0-based) the scan resumes at
    starts,                        \* analyze_js: m.start() of the match behind each hit
    endpoints,                     \* analyze_js: the endpoints appended so far
    jpc,                           \* analyze_js: "scan", "fetch", "xhr", "done", "off"
    soup,                          \* analyze_html: the elements of the parsed page
    html_site_url,                 \* analyze_html: site_url, a str or None
    evidence,                      \* analyze_html: the evidence dict being filled
    hpos,                          \* analyze_html: position find_all resumes at
    hpc,                           \* analyze_html: "anchors", "iframes", "done", "off"
    t_s,                           \* _truncate_text: s
    t_limit,                       \* _truncate_text: limit
    t_out,                         \* _truncate_text: the value returned
    tpc                            \* _truncate_text: "call", "returned", "off"

shrinkVars == <<payload, limit, MAX_JS_FILES, MAX_JS_EVIDENCE_PER_FILE,
                MAX_HTML_EVIDENCE_PER_BUCKET, MAX_STR_FIELD, cur, it, pc, step,
                run, first, content, alias, changed>>
jsVars == <<js_text, evidences, pat, pos, starts, endpoints, jpc>>
htmlVars == <<soup, html_site_url, evidence, hpos, hpc>>
textVars == <<t_s, t_limit, t_out, tpc>>
vars == <<shrinkVars, jsVars, htmlVars, textVars>>

-----------------------------------------------------------------------------
(* Bounds of the model *)
MaxFiles == 2          \* JS files in a payload
MaxHits == 2           \* eval call sites in one script
MaxRecords == 2        \* forms / anchors in a page
FilesCap == 1          \* value given to MAX_JS_FILES
HitsCap == 1           \* value given to MAX_JS_EVIDENCE_PER_FILE
BucketCap == 1         \* value given to MAX_HTML_EVIDENCE_PER_BUCKET
LongLen == 100         \* characters appended to make a field long
MaxLines == 3          \* lines of a script given to analyze_js
MaxElems == 2          \* elements of a page given to analyze_html
MaxStrLen == 12        \* length of a string, and limit, given to _truncate_text
StrFieldValues == {3, 10, 80}   \* values given to MAX_STR_FIELD

-----------------------------------------------------------------------------
(* Python values *)
PyStr(s) == [t |-> "str", v |-> s]
PyNone == [t |-> "null", v |-> <<>>]
PyInt(n) == [t |-> "int", v |-> n]
PyBool(b) == [t |-> "bool", v |-> b]
PyList(xs) == [t |-> "list", v |-> xs]
PyDict(items) == [t |-> "dict", v |-> items]
Item(key, val) == [k |-> key, v |-> val]

HasKey(d, key) == \E i \in 1..Len(d.v) : d.v[i].k = key

\* d.get(key, default)
Get(d, key, default) ==
    IF HasKey(d, key)
    THEN d.v[CHOOSE i \in 1..Len(d.v) : d.v[i].k = key].v
    ELSE default

\* d[key] = val
SetKey(d, key, val) ==
    IF HasKey(d, key)
    THEN PyDict([i \in 1..Len(d.v) |->
                 IF d.v[i].k = key THEN Item(key, val) ELSE d.v[i]])
    ELSE PyDict(Append(d.v, Item(key, val)))

\* F(x), with x evaluated once
Then(x, F(_)) == CHOOSE r \in {F(v) : v \in {x}} : TRUE

\* mutant of Prefix: the last n elements are kept
Suffix(xs, n) == SubSeq(xs, (IF n < Len(xs) THEN Len(xs) - n ELSE 0) + 1, Len(xs))

\* xs[:n] for n >= 0
Prefix(xs, n) == SubSeq(xs, 1, IF n < Len(xs) THEN n ELSE Len(xs))

-----------------------------------------------------------------------------
(* json.dumps(obj, ensure_ascii=...): the length of the text it produces,  *)
(* with the default separators ", " and ": ".                              *)

\* characters one code point takes inside a JSON string
EscapedWidth(c, ensure_ascii) ==
    IF c >= 32 /\ c # 34 /\ c # 92 /\ (c <= 126 \/ ~ensure_ascii) THEN 1
    ELSE IF c = 34 \/ c = 92 THEN 2                              \* \" and \\
    ELSE IF c = 8 \/ c = 9 \/ c = 10 \/ c = 12 \/ c = 13 THEN 2  \* \b \t \n \f \r
    ELSE IF c < 32 THEN 6                                        \* \u00XX
    ELSE IF c > 65535 THEN 12                                    \* a surrogate pair
    ELSE 6                                                       \* \uXXXX

\* the characters of s once escaped: one each, plus what the escapes add
StrWidth(s, ensure_ascii) ==
    LET esc == {i \in 1..Len(s) : EscapedWidth(s[i], ensure_ascii) # 1}
    IN  Len(s) + Cardinality({i \in esc : EscapedWidth(s[i], ensure_ascii) = 2})
               + 5 * Cardinality({i \in esc : EscapedWidth(s[i], ensure_ascii) = 6})
               + 11 * Cardinality({i \in esc : EscapedWidth(s[i], ensure_ascii) = 12})

RECURSIVE Digits(_)
Digits(n) == IF n < 10 THEN 1 ELSE 1 + Digits(n \div 10)

RECURSIVE JsonLen(_, _)
RECURSIVE ElementsLen(_, _, _)
RECURSIVE ItemsLen(_, _, _)
JsonLen(obj, ensure_ascii) ==
    CASE obj.t = "str" -> 2 + StrWidth(obj.v, ensure_ascii)
      [] obj.t = "null" -> 4
      [] obj.t = "bool" -> IF obj.v THEN 4 ELSE 5
      [] obj.t = "int" -> IF obj.v < 0 THEN 1 + Digits(-obj.v) ELSE Digits(obj.v)
      [] obj.t = "list" ->
            2 + ElementsLen(obj.v, 1, ensure_ascii)
              + (IF Len(obj.v) > 0 THEN 2 * (Len(obj.v) - 1) ELSE 0)       \* ", "
      [] obj.t = "dict" ->
            2 + ItemsLen(obj.v, 1, ensure_ascii)
              + (IF Len(obj.v) > 0 THEN 2 * (Len(obj.v) - 1) ELSE 0)       \* ", "
\* the elements xs[i..] of a list
ElementsLen(xs, i, ensure_ascii) ==
    IF i > Len(xs) THEN 0
    ELSE JsonLen(xs[i], ensure_ascii) + ElementsLen(xs, i + 1, ensure_ascii)
\* the items [i..] of a dict, each "key": value; the keys of this model are ASCII
\* identifiers, which take no escape
ItemsLen(items, i, ensure_ascii) ==
    IF i > Len(items) THEN 0
    ELSE Len(items[i].k) + 2 + 2 + JsonLen(items[i].v, ensure_ascii)
            + ItemsLen(items, i + 1, ensure_ascii)

\* size(obj) of _shrink_payload
size(obj) == JsonLen(obj, FALSE)

-----------------------------------------------------------------------------
(* Sample text, as code points *)
s_site_url == <<104, 116, 116, 112, 115, 58, 47, 47, 97, 46, 116, 101, 115, 116, 47, 112, 97, 103, 101>>  \* https://a.test/page
s_object == <<111, 98, 106, 101, 99, 116>>  \* object
s_summary == <<115, 117, 109, 109, 97, 114, 121>>  \* summary
s_form_tag == <<60, 102, 111, 114, 109, 32, 97, 99, 116, 105, 111, 110, 61, 34, 47, 115, 34, 62, 60, 47, 102, 111, 114, 109, 62>>  \* <form action="/s"></form>
s_action == <<47, 115>>  \* /s
s_action_abs == <<104, 116, 116, 112, 115, 58, 47, 47, 97, 46, 116, 101, 115, 116, 47, 115>>  \* https://a.test/s
s_GET == <<71, 69, 84>>  \* GET
s_a_tag == <<60, 97, 32, 104, 114, 101, 102, 61, 34, 47, 120, 34, 32, 116, 97, 114, 103, 101, 116, 61, 34, 95, 98, 108, 97, 110, 107, 34, 62, 120, 60, 47, 97, 62>>  \* <a href="/x" target="_blank">x</a>
s_href == <<47, 120>>  \* /x
s_href_abs == <<104, 116, 116, 112, 115, 58, 47, 47, 97, 46, 116, 101, 115, 116, 47, 120>>  \* https://a.test/x
s_blank == <<95, 98, 108, 97, 110, 107>>  \* _blank
s_nofollow == <<110, 111, 102, 111, 108, 108, 111, 119>>  \* nofollow
s_meta_csp == <<60, 109, 101, 116, 97, 32, 104, 116, 116, 112, 45, 101, 113, 117, 105, 118, 61, 34, 67, 111, 110, 116, 101, 110, 116, 45, 83, 101, 99, 117, 114, 105, 116, 121, 45, 80, 111, 108, 105, 99, 121, 34, 47, 62>>  \* <meta http-equiv="Content-Security-Policy"/>
s_meta_charset == <<60, 109, 101, 116, 97, 32, 99, 104, 97, 114, 115, 101, 116, 61, 34, 117, 116, 102, 45, 56, 34, 47, 62>>  \* <meta charset="utf-8"/>
s_a_js == <<97, 46, 106, 115>>  \* a.js
s_sha1 == <<100, 97, 51, 57, 97, 51, 101, 101, 53, 101, 54, 98, 52, 98, 48, 100, 51, 50, 53, 53, 98, 102, 101, 102, 57, 53, 54, 48, 49, 56, 57, 48, 97, 102, 100, 56, 48, 55, 48, 57>>  \* da39a3ee5e6b4b0d3255bfef95601890afd80709
s_use_of_eval == <<117, 115, 101, 95, 111, 102, 95, 101, 118, 97, 108>>  \* use_of_eval
s_eval_regex == <<92, 98, 101, 118, 97, 108, 92, 115, 42, 92, 40>>  \* \beval\s*\(
s_eval == <<101, 118, 97, 108>>  \* eval
s_innerHTML_assignment == <<105, 110, 110, 101, 114, 72, 84, 77, 76, 95, 97, 115, 115, 105, 103, 110, 109, 101, 110, 116>>  \* innerHTML_assignment
s_innerHTML_regex == <<92, 46, 105, 110, 110, 101, 114, 72, 84, 77, 76, 92, 115, 42, 61>>  \* \.innerHTML\s*=
s_dot_innerhtml == <<46, 105, 110, 110, 101, 114, 104, 116, 109, 108>>  \* .innerhtml
s_eval_line == <<101, 118, 97, 108, 40, 117, 115, 101, 114, 73, 110, 112, 117, 116, 41, 59>>  \* eval(userInput);
s_const_line == <<99, 111, 110, 115, 116, 32, 120, 32, 61, 32, 49, 59>>  \* const x = 1;
s_inner_line == <<97, 46, 105, 110, 110, 101, 114, 72, 84, 77, 76, 61, 69, 118, 97, 108>>  \* a.innerHTML=Eval
s_fetch_call == <<102, 101, 116, 99, 104, 95, 99, 97, 108, 108>>  \* fetch_call
s_fetch_regex == <<92, 98, 102, 101, 116, 99, 104, 92, 115, 42, 92, 40, 92, 115, 42, 91, 39, 92, 34, 93, 40, 91, 94, 39, 92, 34, 93, 43, 41>>  \* \bfetch\s*\(\s*['\"]([^'\"]+)
s_fetch == <<102, 101, 116, 99, 104>>  \* fetch
s_xhr_open == <<120, 104, 114, 95, 111, 112, 101, 110>>  \* xhr_open
s_xhr_open_regex == <<92, 46, 111, 112, 101, 110, 92, 115, 42, 92, 40, 92, 115, 42, 91, 39, 92, 34, 93, 40, 71, 69, 84, 124, 80, 79, 83, 84, 124, 80, 85, 84, 124, 68, 69, 76, 69, 84, 69, 124, 80, 65, 84, 67, 72, 41, 91, 39, 92, 34, 93, 92, 115, 42, 44, 92, 115, 42, 91, 39, 92, 34, 93, 40, 91, 94, 39, 92, 34, 93, 43, 41>>  \* \.open\s*\(\s*['\"](GET|POST|PUT|DELETE|PATCH)['\"]\s*,\s*['\"]([^'\"]+)
s_dot_open == <<46, 111, 112, 101, 110>>  \* .open
s_xhr == <<120, 104, 114>>  \* xhr
s_fetch_line == <<102, 101, 116, 99, 104, 40, 39, 47, 97, 39, 41, 59, 32, 70, 101, 116, 99, 104, 40, 34, 47, 98, 34, 41>>  \* fetch('/a'); Fetch("/b")
s_open_line == <<120, 46, 111, 112, 101, 110, 40, 39, 103, 101, 116, 39, 44, 32, 39, 47, 99, 39, 41>>  \* x.open('get', '/c')
s_paren_line == <<40, 98, 41, 59, 32, 114, 101, 116, 114, 105, 101, 118, 97, 108, 40, 99, 41>>  \* (b); retrieval(c)

\* n distinct non-ASCII letters, appended to a sample string to make it long
Pad(n) == [i \in 1..n |-> 1000 + i]

-----------------------------------------------------------------------------
(* _truncate_text: int(limit * 0.6) and int(limit * 0.3) truncate toward    *)
(* zero; for 0 <= limit they equal (6*limit) div 10 and (3*limit) div 10.   *)
(* s[-k:] is the last k characters, but s[-0:] is the whole of s.           *)
ELLIPSIS == <<10, 46, 46, 46, 10>>            \* "\n...\n"

_truncate_text(s, lim) ==
    IF Len(s) <= lim THEN s
    ELSE LET h == (lim * 6) \div 10
             k == (lim * 3) \div 10
             head == SubSeq(s, 1, h)
             tail == IF k = 0 THEN s ELSE SubSeq(s, Len(s) - k + 1, Len(s))
         IN  head \o ELLIPSIS \o tail

-----------------------------------------------------------------------------
(* analyze_js *)

\* str.splitlines(): the characters Python breaks lines at
LineBreaks == {10, 11, 12, 13, 28, 29, 30, 133, 8232, 8233}

RECURSIVE SplitFrom(_, _)
\* the lines of text[i..]: up to the next line break, \r\n counting as one
SplitFrom(text, i) ==
    IF i > Len(text) THEN <<>>
    ELSE IF \E j \in i..Len(text) : text[j] \in LineBreaks
         THEN LET j == CHOOSE j \in i..Len(text) :
                           /\ text[j] \in LineBreaks
                           /\ \A m \in i..(j - 1) : text[m] \notin LineBreaks
                  crlf == text[j] = 13 /\ j < Len(text) /\ text[j + 1] = 10
              IN  <<SubSeq(text, i, j - 1)>>
                     \o SplitFrom(text, IF crlf THEN j + 2 ELSE j + 1)
         ELSE <<SubSeq(text, i, Len(text))>>

splitlines(text) == SplitFrom(text, 1)

\* js_text.count("\n", 0, stop)
CountNewlines(text, stop) == Cardinality({i \in 1..stop : text[i] = 10})

\* \w of a str pattern on the ASCII range (the characters next to a \b in the
\* scripts of this model are ASCII or line separators), and \s: the characters
\* str.isspace() holds of
IsWord(c) == (c >= 48 /\ c <= 57) \/ (c >= 65 /\ c <= 90) \/ (c >= 97 /\ c <= 122) \/ c = 95
IsSpace(c) ==
    \/ c \in {9, 10, 11, 12, 13, 28, 29, 30, 31, 32, 133, 160, 5760}
    \/ (c >= 8192 /\ c <= 8202)
    \/ c \in {8232, 8233, 8239, 8287, 12288}
Lower(c) == IF c >= 65 /\ c <= 90 THEN c + 32 ELSE c

(* is_data_uri and abs_url *)

s_noopener == <<110, 111, 111, 112, 101, 110, 101, 114>>  \* noopener
s_noreferrer == <<110, 111, 114, 101, 102, 101, 114, 114, 101, 114>>  \* noreferrer
s_noopenerx == <<110, 111, 111, 112, 101, 110, 101, 114, 120>>  \* noopenerx
s_self == <<95, 115, 101, 108, 102>>  \* _self
s_javascript_colon == <<106, 97, 118, 97, 115, 99, 114, 105, 112, 116, 58>>  \* javascript:
s_data_colon == <<100, 97, 116, 97, 58>>  \* data:
s_js_href == <<32, 74, 97, 118, 97, 83, 99, 114, 105, 112, 116, 58, 118, 111, 105, 100, 40, 48, 41>>  \*  JavaScript:void(0)
s_data_uri == <<100, 97, 116, 97, 58, 116, 101, 120, 116, 47, 104, 116, 109, 108, 44, 104, 105>>  \* data:text/html,hi
s_DATA_uri == <<32, 68, 65, 84, 65, 58, 116, 101, 120, 116, 47, 104, 116, 109, 108, 44, 104, 105>>  \*  DATA:text/html,hi
s_bad_netloc == <<47, 47, 91>>  \* //[
s_other_origin == <<104, 116, 116, 112, 115, 58, 47, 47, 98, 46, 116, 101, 115, 116, 47, 121>>  \* https://b.test/y
s_rel_path == <<102, 46, 104, 116, 109, 108>>  \* f.html
s_site_dir == <<104, 116, 116, 112, 115, 58, 47, 47, 97, 46, 116, 101, 115, 116, 47, 100, 47, 112, 97, 103, 101>>  \* https://a.test/d/page

\* str.strip(), str.lower() (on the ASCII letters) and str.startswith()
strip(s) ==
    LET ns == {i \in 1..Len(s) : ~IsSpace(s[i])}
    IN  IF ns = {} THEN <<>>
        ELSE SubSeq(s, CHOOSE i \in ns : \A j \in ns : i <= j,
                       CHOOSE i \in ns : \A j \in ns : j <= i)
lower(s) == [i \in 1..Len(s) |-> Lower(s[i])]
startswith(s, prefix) == Len(s) >= Len(prefix) /\ SubSeq(s, 1, Len(prefix)) = prefix

\* `not x` of Python: None, "" and [] are false
Falsy(x) == x.t = "null" \/ (x.t \in {"str", "list"} /\ Len(x.v) = 0)

is_data_uri(u) == u.t = "str" /\ startswith(lower(strip(u.v)), s_data_colon)

\* urllib.parse.urljoin(base, url) on the references of this model: a reference
\* with a scheme, a network-path reference (//host...), an absolute path, a
\* relative path, or blank. The result, or ValueError when urlsplit rejects the
\* reference (a bracket in the host that is not closed: "Invalid IPv6 URL").
ValueError == [t |-> "ValueError", v |-> <<>>]

\* index of the first c in s at or after i, or Len(s) + 1
Find(s, c, i) ==
    LET at == {j \in i..Len(s) : s[j] = c}
    IN  IF at = {} THEN Len(s) + 1 ELSE CHOOSE j \in at : \A m \in at : j <= m

\* the scheme of s, up to its colon, or <<>> when s has none
Scheme(s) ==
    LET c == Find(s, 58, 1)
    IN  IF /\ c <= Len(s)
           /\ c > 1
           /\ (Lower(s[1]) >= 97 /\ Lower(s[1]) <= 122)
           /\ \A j \in 1..(c - 1) : IsWord(s[j]) \/ s[j] \in {43, 45, 46}
        THEN SubSeq(s, 1, c - 1)
        ELSE <<>>

\* scheme://host of an absolute base, and the base up to its last slash
Origin(base) == SubSeq(base, 1, Find(base, 47, Len(Scheme(base)) + 4) - 1)
Directory(base) ==
    LET sl == {j \in 1..Len(base) : base[j] = 47}
    IN  SubSeq(base, 1, CHOOSE j \in sl : \A m \in sl : m <= j)

urljoin(base, url) ==
    LET u == strip(url)
        host == SubSeq(u, 3, Find(u, 47, 3) - 1)
    IN  IF Len(base) = 0 THEN PyStr(url)
        ELSE IF Len(u) = 0 THEN PyStr(base)
        ELSE IF Scheme(u) # <<>> THEN PyStr(url)
        ELSE IF startswith(u, <<47, 47>>)
             THEN (IF (\E j \in 1..Len(host) : host[j] = 91)
                         /\ ~(\E j \in 1..Len(host) : host[j] = 93)
                   THEN ValueError
                   ELSE PyStr(Scheme(base) \o <<58>> \o u))
        ELSE IF u[1] = 47 THEN PyStr(Origin(base) \o u)
        ELSE PyStr(Directory(base) \o u)

\* mutant of abs_url: no try/except around urljoin
abs_urlNoFallback(base_url, maybe_rel) ==
    IF Falsy(maybe_rel) THEN PyNone
    ELSE IF is_data_uri(maybe_rel) THEN maybe_rel
    ELSE urljoin(IF Falsy(base_url) THEN <<>> ELSE base_url.v, maybe_rel.v)

abs_url(base_url, maybe_rel) ==
    IF Falsy(maybe_rel) THEN PyNone
    ELSE IF is_data_uri(maybe_rel) THEN maybe_rel
    ELSE LET joined == urljoin(IF Falsy(base_url) THEN <<>> ELSE base_url.v, maybe_rel.v)
         IN  IF joined = ValueError THEN maybe_rel ELSE joined

(* the detectors and the endpoint pass of analyze_js *)

\* The detectors of JS_PATTERNS this model scans for, in the order of the list.
\* Each has the shape  [\b] literal \s* closer  followed by nothing, by
\* \s*['"]([^'"]+)  (tail "url"), or by
\* \s*['"](GET|POST|PUT|DELETE|PATCH)['"]\s*,\s*['"]([^'"]+)  (tail "method_url").
\* ignorecase: analyze_js scans for them with flags=re.IGNORECASE.
JS_PATTERNS ==
    << [label |-> s_use_of_eval, regex |-> s_eval_regex, ignorecase |-> TRUE,
        boundary |-> TRUE, literal |-> s_eval, closer |-> 40, tail |-> "none"],
       [label |-> s_innerHTML_assignment, regex |-> s_innerHTML_regex, ignorecase |-> TRUE,
        boundary |-> FALSE, literal |-> s_dot_innerhtml, closer |-> 61, tail |-> "none"],
       [label |-> s_fetch_call, regex |-> s_fetch_regex, ignorecase |-> TRUE,
        boundary |-> TRUE, literal |-> s_fetch, closer |-> 40, tail |-> "url"],
       [label |-> s_xhr_open, regex |-> s_xhr_open_regex, ignorecase |-> TRUE,
        boundary |-> FALSE, literal |-> s_dot_open, closer |-> 40, tail |-> "method_url"] >>

\* the patterns of the endpoint pass: the fetch one is used without flags, the
\* open one with flags=re.IGNORECASE
FETCH_ENDPOINT == [JS_PATTERNS[3] EXCEPT !.ignorecase = FALSE]
XHR_ENDPOINT == JS_PATTERNS[4]

Quotes == {39, 34}
METHODS == {<<71, 69, 84>>, <<80, 79, 83, 84>>, <<80, 85, 84>>,
            <<68, 69, 76, 69, 84, 69>>, <<80, 65, 84, 67, 72>>}

\* a character as the pattern compares it
Fold(p, c) == IF p.ignorecase THEN Lower(c) ELSE c

RECURSIVE SkipSpace(_, _)
\* first offset >= i (0-based) that holds no whitespace
SkipSpace(text, i) ==
    IF i < Len(text) /\ IsSpace(text[i + 1]) THEN SkipSpace(text, i + 1) ELSE i

\* offset after  [\b] literal \s* closer  matched from offset i, or -1
HeadEnd(p, text, i) ==
    LET n == Len(p.literal)
        lit == /\ i + n <= Len(text)
               /\ \A j \in 1..n : Fold(p, text[i + j]) = Fold(p, p.literal[j])
        wb == ~p.boundary \/ i = 0 \/ ~IsWord(text[i])
        e == SkipSpace(text, i + n)
    IN  IF lit /\ wb /\ e < Len(text) /\ text[e + 1] = p.closer THEN e + 1 ELSE -1

\* offset after  ['"]([^'"]+)  matched from offset q, or -1; the run is greedy
UrlEnd(text, q) ==
    IF q + 1 < Len(text) /\ text[q + 1] \in Quotes /\ text[q + 2] \notin Quotes
    THEN LET qs == {j \in (q + 2)..Len(text) : text[j] \in Quotes}
         IN  IF qs = {} THEN Len(text) ELSE (CHOOSE j \in qs : \A m \in qs : j <= m) - 1
    ELSE -1

\* offset after  ['"](GET|POST|PUT|DELETE|PATCH)['"]  matched from offset q, or -1
MethodEnd(p, text, q) ==
    IF q < Len(text) /\ text[q + 1] \in Quotes
    THEN LET ms == {m \in METHODS :
                      /\ q + 1 + Len(m) < Len(text)
                      /\ \A j \in 1..Len(m) : Fold(p, text[q + 1 + j]) = Fold(p, m[j])
                      /\ text[q + 2 + Len(m)] \in Quotes}
         IN  IF ms = {} THEN -1 ELSE q + 2 + Len(CHOOSE m \in ms : TRUE)
    ELSE -1

\* end offset of the match of pattern p that starts at offset i, or -1
MatchEnd(p, text, i) ==
    LET a == HeadEnd(p, text, i)
        me == MethodEnd(p, text, SkipSpace(text, a))
        comma == SkipSpace(text, me)
    IN  IF a = -1 \/ p.tail = "none" THEN a
        ELSE IF p.tail = "url" THEN UrlEnd(text, SkipSpace(text, a))
        ELSE IF me = -1 THEN -1
        ELSE IF comma < Len(text) /\ text[comma + 1] = 44
             THEN UrlEnd(text, SkipSpace(text, comma + 1))
        ELSE -1

\* start offset of the leftmost match at or after offset i, or -1: one step of re.finditer
FindFrom(p, text, i) ==
    LET at == {j \in i..(Len(text) - 1) : MatchEnd(p, text, j) # -1}
    IN  IF at = {} THEN -1 ELSE CHOOSE j \in at : \A m \in at : j <= m

\* lines[ln] for a 0-based ln >= 0: the element, or what stands for the
\* IndexError Python raises past the end of the list
IndexError == <<-1>>
ListItem(xs, ln) == IF ln < Len(xs) THEN xs[ln + 1] ELSE IndexError

\* the context window of a hit: range(max(0, line_no - 1), min(len(lines), line_no + 2))
ContextFrom(line_no) == IF line_no - 1 > 0 THEN line_no - 1 ELSE 0

\* mutant of ContextTo: the window is not clipped at the end of the file
ContextToUnclipped(lines, line_no) == line_no + 2

ContextTo(lines, line_no) == IF Len(lines) < line_no + 2 THEN Len(lines) ELSE line_no + 2

\* ctx.append({"line": ln + 1, "code": lines[ln]}) for each ln of the range
Context(lines, line_no) ==
    LET lo == ContextFrom(line_no)
        hi == ContextTo(lines, line_no)
    IN  [j \in 1..(IF hi > lo THEN hi - lo ELSE 0) |->
            PyDict(<<Item("line", PyInt(lo + j)),
                     Item("code", PyStr(ListItem(lines, lo + j - 1)))>>)]

\* mutant of LineNo: the 0-based line index is reported
LineNoZeroBased(text, start) == CountNewlines(text, start)

\* line_index = js_text.count("\n", 0, m.start()); line_no = line_index + 1
LineNo(text, start) == CountNewlines(text, start) + 1

\* the evidence record of the match of pattern p at offset start
Evidence(p, text, filename, start) ==
    LET line_no == LineNo(text, start)
    IN  PyDict(<< Item("pattern", PyStr(p.label)),
                  Item("regex", PyStr(p.regex)),
                  Item("filename", PyStr(filename)),
                  Item("line_no", PyInt(line_no)),
                  Item("context", PyList(Context(splitlines(text), line_no))) >>)

RECURSIVE HitsOf(_, _, _, _)
\* the hits of pattern p from offset i on
HitsOf(p, text, filename, i) ==
    LET start == FindFrom(p, text, i)
    IN  IF start = -1 THEN <<>>
        ELSE <<Evidence(p, text, filename, start)>>
                \o HitsOf(p, text, filename, MatchEnd(p, text, start))

RECURSIVE AllHits(_, _, _)
AllHits(text, filename, k) ==
    IF k > Len(JS_PATTERNS) THEN <<>>
    ELSE HitsOf(JS_PATTERNS[k], text, filename, 0) \o AllHits(text, filename, k + 1)

\* the last group of a match that ends at offset e: the run after its last quote
UrlGroup(text, e) ==
    LET qs == {j \in 1..e : text[j] \in Quotes}
    IN  SubSeq(text, (CHOOSE j \in qs : \A m \in qs : m <= j) + 1, e)

\* the first group of an open(...) match that starts at offset start: the text
\* between its first two quotes
MethodGroup(text, start) ==
    LET qs == {j \in (start + 1)..Len(text) : text[j] \in Quotes}
        q1 == CHOOSE j \in qs : \A m \in qs : j <= m
        q2 == CHOOSE j \in qs \ {q1} : \A m \in qs \ {q1} : j <= m
    IN  SubSeq(text, q1 + 1, q2 - 1)

\* the endpoint records of the matches at offset start
FetchEndpoint(text, filename, site_url, start) ==
    LET url == PyStr(UrlGroup(text, MatchEnd(FETCH_ENDPOINT, text, start)))
    IN  PyDict(<< Item("type", PyStr(s_fetch)),
                  Item("url", url),
                  Item("url_abs", abs_url(site_url, url)),
                  Item("filename", PyStr(filename)) >>)

XhrEndpoint(text, filename, site_url, start) ==
    LET url == PyStr(UrlGroup(text, MatchEnd(XHR_ENDPOINT, text, start)))
    IN  PyDict(<< Item("type", PyStr(s_xhr)),
                  Item("method", PyStr(MethodGroup(text, start))),
                  Item("url", url),
                  Item("url_abs", abs_url(site_url, url)),
                  Item("filename", PyStr(filename)) >>)

RECURSIVE FetchEndpoints(_, _, _, _)
FetchEndpoints(text, filename, site_url, i) ==
    LET start == FindFrom(FETCH_ENDPOINT, text, i)
    IN  IF start = -1 THEN <<>>
        ELSE <<FetchEndpoint(text, filename, site_url, start)>>
                \o FetchEndpoints(text, filename, site_url,
                                  MatchEnd(FETCH_ENDPOINT, text, start))

RECURSIVE XhrEndpoints(_, _, _, _)
XhrEndpoints(text, filename, site_url, i) ==
    LET start == FindFrom(XHR_ENDPOINT, text, i)
    IN  IF start = -1 THEN <<>>
        ELSE <<XhrEndpoint(text, filename, site_url, start)>>
                \o XhrEndpoints(text, filename, site_url,
                                MatchEnd(XHR_ENDPOINT, text, start))

\* the dict analyze_js returns (the sha1 is sample text)
analyze_js(text, filename, site_url) ==
    PyDict(<< Item("filename", PyStr(filename)),
              Item("sha1", PyStr(s_sha1)),
              Item("evidences", PyList(AllHits(text, filename, 1))),
              Item("endpoints", PyList(FetchEndpoints(text, filename, site_url, 0)
                                         \o XhrEndpoints(text, filename, site_url, 0))) >>)

-----------------------------------------------------------------------------
(* analyze_all_js, the evidence dict of analyze_html, and build_messages    *)

RECURSIVE TotalHits(_)
TotalHits(files) ==
    IF Len(files) = 0 THEN 0
    ELSE Len(Get(files[1], "evidences", PyList(<<>>)).v) + TotalHits(Tail(files))

\* the i-th file name of the sorted listing: a.js, b.js, ...
FileName(i) == <<96 + i>> \o Tail(s_a_js)

\* texts: the scripts found in core_js, in sorted order
analyze_all_js(texts, site_url) ==
    LET files == [i \in 1..Len(texts) |-> analyze_js(texts[i], FileName(i), site_url)]
    IN  PyDict(<< Item("files", PyList(files)),
                  Item("summary", PyDict(<< Item("total_files", PyInt(Len(texts))),
                                            Item("total_hits", PyInt(TotalHits(files))) >>)) >>)

\* The evidence dict analyze_html returns for a page with a CSP meta tag csp (or
\* None), a charset meta tag, nforms forms and nanchors anchors with
\* target="_blank" and rel attribute rel (a list of tokens, or None). The i-th
\* form and the i-th anchor end in the digit i, so that records can be told apart.
Nth(s, i) == s \o <<48 + i>>

HtmlEvidence(csp, form_tag, action, nforms, a_tag, rel, nanchors) ==
    LET form(i) == PyDict(<< Item("outer_html", PyStr(Nth(form_tag, i))),
                             Item("action", PyStr(Nth(action, i))),
                             Item("action_abs", PyStr(Nth(s_action_abs, i))),
                             Item("method", PyStr(s_GET)) >>)
        blank(i) == PyDict(<< Item("outer_html", PyStr(Nth(a_tag, i))),
                              Item("href", PyStr(Nth(s_href, i))),
                              Item("href_abs", PyStr(Nth(s_href_abs, i))),
                              Item("target", PyStr(s_blank)),
                              Item("rel", rel) >>)
        link(i) == PyDict(<< Item("outer_html", PyStr(Nth(a_tag, i))),
                             Item("href", PyStr(Nth(s_href, i))),
                             Item("href_abs", PyStr(Nth(s_href_abs, i))) >>)
    IN  PyDict(<<
          Item("meta", PyDict(<< Item("csp_meta_present", PyBool(csp # PyNone)),
                                 Item("csp_meta_tag", csp),
                                 Item("charset", PyStr(s_meta_charset)) >>)),
          Item("forms", PyList([i \in 1..nforms |-> form(i)])),
          Item("inline_event_handlers", PyList(<<>>)),
          Item("javascript_href_links", PyList(<<>>)),
          Item("target_blank_without_noopener", PyList([i \in 1..nanchors |-> blank(i)])),
          Item("iframes", PyList(<<>>)),
          Item("script_tags", PyList(<<>>)),
          Item("links", PyList([i \in 1..nanchors |-> link(i)])),
          Item("potential_secrets_in_html", PyList(<<>>)) >>)

\* user_payload of build_messages; of the schema only its first level is kept
UserPayload(site_url, html_ev, js_ev) ==
    PyDict(<<
      Item("site_url", site_url),
      Item("schema", PyDict(<< Item("type", PyStr(s_object)),
                               Item("required", PyList(<<PyStr(s_summary)>>)) >>)),
      Item("html", PyDict(<<Item("highlights", html_ev)>>)),
      Item("javascript", js_ev),
      Item("instructions", PyDict(<< Item("no_payloads", PyBool(TRUE)),
                                     Item("only_owasp_top10", PyBool(TRUE)),
                                     Item("precise_names_only", PyBool(TRUE)),
                                     Item("full_offending_html_required", PyBool(TRUE)),
                                     Item("definitive_only", PyBool(TRUE)),
                                     Item("exclude_if_any_validation_false", PyBool(TRUE)) >>)) >>)

-----------------------------------------------------------------------------
(* _shrink_payload *)

MaxIterShort == 20 - 17                        \* mutant of MaxIter: range(3)
MaxIterLong == 20 + 1                          \* mutant of MaxIter: range(21)
MaxIter == 20                                  \* for _ in range(20)

\* mutant of truncate: outer_html is truncated like any other string
RECURSIVE truncateAny(_)
truncateAny(node) ==
    IF node.t = "dict"
    THEN PyDict([i \in 1..Len(node.v) |->
            LET k == node.v[i].k
                v == node.v[i].v
            IN  IF v.t = "str"
                THEN (IF Len(v.v) > MAX_STR_FIELD
                      THEN Item(k, PyStr(_truncate_text(v.v, MAX_STR_FIELD)))
                      ELSE node.v[i])
                ELSE Item(k, truncateAny(v))])
    ELSE IF node.t = "list"
    THEN PyList([i \in 1..Len(node.v) |-> truncateAny(node.v[i])])
    ELSE node

\* the nested truncate(node): strings that are dict values, outer_html excepted
RECURSIVE truncate(_)
truncate(node) ==
    IF node.t = "dict"
    THEN PyDict([i \in 1..Len(node.v) |->
            LET k == node.v[i].k
                v == node.v[i].v
            IN  IF k = "outer_html" THEN node.v[i]
                ELSE IF v.t = "str"
                     THEN (IF Len(v.v) > MAX_STR_FIELD
                           THEN Item(k, PyStr(_truncate_text(v.v, MAX_STR_FIELD)))
                           ELSE node.v[i])
                     ELSE Item(k, truncate(v))])
    ELSE IF node.t = "list"
    THEN PyList([i \in 1..Len(node.v) |-> truncate(node.v[i])])
    ELSE node

JsFiles(c) == Get(Get(c, "javascript", PyDict(<<>>)), "files", PyList(<<>>)).v
HtmlHigh(c) == Get(Get(c, "html", PyDict(<<>>)), "highlights", PyDict(<<>>))
Evidences(f) == Get(f, "evidences", PyList(<<>>)).v

\* cur["javascript"]["files"] = js_files[:MAX_JS_FILES]
CutJsFiles(c) ==
    SetKey(c, "javascript",
           SetKey(Get(c, "javascript", PyDict(<<>>)), "files",
                  PyList(Prefix(JsFiles(c), MAX_JS_FILES))))

\* some file holds more than MAX_JS_EVIDENCE_PER_FILE hits
HitsOver(c) ==
    \E i \in 1..Len(JsFiles(c)) : Len(Evidences(JsFiles(c)[i])) > MAX_JS_EVIDENCE_PER_FILE

\* f["evidences"] = f["evidences"][:MAX_JS_EVIDENCE_PER_FILE], for each such file
CutJsEvidences(c) ==
    SetKey(c, "javascript",
           SetKey(Get(c, "javascript", PyDict(<<>>)), "files",
                  PyList([i \in 1..Len(JsFiles(c)) |->
                      LET f == JsFiles(c)[i]
                      IN  IF Len(Evidences(f)) > MAX_JS_EVIDENCE_PER_FILE
                          THEN SetKey(f, "evidences",
                                      PyList(Prefix(Evidences(f), MAX_JS_EVIDENCE_PER_FILE)))
                          ELSE f])))

BucketOver(arr) == arr.t = "list" /\ Len(arr.v) > MAX_HTML_EVIDENCE_PER_BUCKET

BucketsOver(c) == \E i \in 1..Len(HtmlHigh(c).v) : BucketOver(HtmlHigh(c).v[i].v)

\* html_high[key] = arr[:MAX_HTML_EVIDENCE_PER_BUCKET], for each list over the limit
CutHtmlBuckets(c) ==
    SetKey(c, "html",
           SetKey(Get(c, "html", PyDict(<<>>)), "highlights",
                  PyDict([i \in 1..Len(HtmlHigh(c).v) |->
                      LET e == HtmlHigh(c).v[i]
                      IN  IF BucketOver(e.v)
                          THEN Item(e.k, PyList(Prefix(e.v.v, MAX_HTML_EVIDENCE_PER_BUCKET)))
                          ELSE e])))

\* One iteration of the loop that did not break applies the first applicable
\* step; each structural cut ends the iteration with `continue`.
StepOf(c) ==
    IF Len(JsFiles(c)) > MAX_JS_FILES THEN "files"
    ELSE IF HitsOver(c) THEN "hits"
    ELSE IF BucketsOver(c) THEN "buckets"
    ELSE "truncate"

\* mutant of LoopBody: the `continue` after the file cut is missing
LoopBodyFallThrough(c) ==
    IF Len(JsFiles(c)) > MAX_JS_FILES
    THEN Then(CutJsFiles(c), LAMBDA d : IF HitsOver(d) THEN CutJsEvidences(d) ELSE d)
    ELSE IF HitsOver(c) THEN CutJsEvidences(c)
    ELSE IF BucketsOver(c) THEN CutHtmlBuckets(c)
    ELSE truncate(c)

LoopBody(c) ==
    IF Len(JsFiles(c)) > MAX_JS_FILES THEN CutJsFiles(c)
    ELSE IF HitsOver(c) THEN CutJsEvidences(c)
    ELSE IF BucketsOver(c) THEN CutHtmlBuckets(c)
    ELSE truncate(c)

-----------------------------------------------------------------------------
(* The anchor and iframe loops of analyze_html *)

\* An element of the parsed page: its tag name and its attributes in source
\* order; a multi-valued attribute (rel) holds the list of its tokens.
Element(name, attrs) == [name |-> name, attrs |-> PyDict(attrs)]

\* el.get(attr)
Attr(el, attr) == Get(el.attrs, attr, PyNone)

\* " ".join(tokens)
RECURSIVE JoinTokens(_)
JoinTokens(tokens) ==
    IF Len(tokens) = 0 THEN <<>>
    ELSE IF Len(tokens) = 1 THEN tokens[1].v
    ELSE tokens[1].v \o <<32>> \o JoinTokens(Tail(tokens))

\* the names this model's pages use, as text
NameText(n) ==
    CASE n = "a" -> <<97>>
      [] n = "iframe" -> <<105, 102, 114, 97, 109, 101>>
      [] n = "href" -> <<104, 114, 101, 102>>
      [] n = "target" -> <<116, 97, 114, 103, 101, 116>>
      [] n = "rel" -> <<114, 101, 108>>
      [] n = "src" -> <<115, 114, 99>>

RECURSIVE AttrsText(_, _)
AttrsText(items, i) ==
    IF i > Len(items) THEN <<>>
    ELSE <<32>> \o NameText(items[i].k) \o <<61, 34>>
           \o (IF items[i].v.t = "list" THEN JoinTokens(items[i].v.v) ELSE items[i].v.v)
           \o <<34>> \o AttrsText(items, i + 1)

\* outer(el): str(el), the markup of the tag
outer(el) ==
    <<60>> \o NameText(el.name) \o AttrsText(el.attrs.v, 1) \o <<62>>
           \o <<60, 47>> \o NameText(el.name) \o <<62>>

\* evidence[bucket].append(rec)
AppendTo(ev, bucket, rec) ==
    SetKey(ev, bucket, PyList(Append(Get(ev, bucket, PyList(<<>>)).v, rec)))

\* the evidence dict before the loops, for a page without meta elements
EmptyEvidence ==
    PyDict(<< Item("meta", PyDict(<< Item("csp_meta_present", PyBool(FALSE)),
                                     Item("csp_meta_tag", PyNone),
                                     Item("charset", PyNone) >>)),
              Item("forms", PyList(<<>>)),
              Item("inline_event_handlers", PyList(<<>>)),
              Item("javascript_href_links", PyList(<<>>)),
              Item("target_blank_without_noopener", PyList(<<>>)),
              Item("iframes", PyList(<<>>)),
              Item("script_tags", PyList(<<>>)),
              Item("links", PyList(<<>>)),
              Item("potential_secrets_in_html", PyList(<<>>)) >>)

\* a.get("target") == "_blank" and (not a.get("rel") or "noopener" not in " ".join(a.get("rel")))
Contains(s, sub) == \E i \in 0..(Len(s) - Len(sub)) : SubSeq(s, i + 1, i + Len(sub)) = sub
BlankWithoutNoopener(a) ==
    /\ Attr(a, "target") = PyStr(s_blank)
    /\ \/ Falsy(Attr(a, "rel"))
       \/ ~Contains(JoinTokens(Attr(a, "rel").v), s_noopener)

\* the body of `for a in soup.find_all("a", href=True)`
AnchorBody(ev, base_url, a) ==
    LET href == Attr(a, "href")
        js == IF startswith(lower(strip(href.v)), s_javascript_colon)
              THEN AppendTo(ev, "javascript_href_links",
                            PyDict(<< Item("outer_html", PyStr(outer(a))),
                                      Item("href", href) >>))
              ELSE ev
        blank == IF BlankWithoutNoopener(a)
                 THEN AppendTo(js, "target_blank_without_noopener",
                               PyDict(<< Item("outer_html", PyStr(outer(a))),
                                         Item("href", href),
                                         Item("href_abs", abs_url(base_url, href)),
                                         Item("target", Attr(a, "target")),
                                         Item("rel", Attr(a, "rel")) >>))
                 ELSE js
    IN  AppendTo(blank, "links",
                 PyDict(<< Item("outer_html", PyStr(outer(a))),
                           Item("href", href),
                           Item("href_abs", abs_url(base_url, href)) >>))

\* the body of `for iframe in soup.find_all("iframe")`
IframeBody(ev, base_url, iframe) ==
    AppendTo(ev, "iframes",
             PyDict(<< Item("outer_html", PyStr(outer(iframe))),
                       Item("src", Attr(iframe, "src")),
                       Item("src_abs", abs_url(base_url, Attr(iframe, "src"))) >>))

\* position of the next element at or after i that find_all yields, or 0
NextFound(page, i, name, needs) ==
    LET at == {j \in i..Len(page) :
                  page[j].name = name /\ (needs = "" \/ HasKey(page[j].attrs, needs))}
    IN  IF at = {} THEN 0 ELSE CHOOSE j \in at : \A m \in at : j <= m


-----------------------------------------------------------------------------
(* The inputs of the model *)

\* which field of the page or of the scripts is long
LongFields == {"none", "code", "action", "outer_html", "rel", "csp"}

Long(s, yes) == IF yes THEN s \o Pad(LongLen) ELSE s

RECURSIVE Repeat(_, _)
Repeat(s, n) == IF n = 0 THEN <<>> ELSE s \o Repeat(s, n - 1)

\* a script with n eval call sites after a first line
Script(n, long) ==
    s_const_line \o <<10>> \o Repeat(Long(s_eval_line, long) \o <<10>>, n)

\* the payload build_messages assembles for nf scripts, those in big with MaxHits
\* call sites, and a page with nforms forms and nanchors anchors
Assembled(nf, big, nforms, nanchors, lf) ==
    UserPayload(
        PyStr(s_site_url),
        HtmlEvidence(IF lf = "none" THEN PyNone ELSE PyStr(Long(s_meta_csp, lf = "csp")),
                     Long(s_form_tag, lf = "outer_html"),
                     Long(s_action, lf = "action"),
                     nforms,
                     Long(s_a_tag, lf = "outer_html"),
                     IF lf = "none" THEN PyNone
                     ELSE PyList(<<PyStr(Long(s_nofollow, lf = "rel"))>>),
                     nanchors),
        analyze_all_js([i \in 1..nf |->
                           Script(IF i \in big THEN MaxHits ELSE 0, lf = "code")],
                       PyStr(s_site_url)))

\* p with every cap and the string truncation applied
Reduced(p) == Then(Then(Then(Then(p, CutJsFiles), CutJsEvidences), CutHtmlBuckets), truncate)

\* budgets: hopeless, exactly what the reductions reach, one short, enough
Budgets(p) == {0, size(Reduced(p)), size(p) - 1, size(p)}

\* the scripts with many call sites: none, the first, or all
BigSets(nf) == {{}, {i \in 1..nf : i = 1}, 1..nf}

\* the payloads of the model
Payloads ==
    UNION { { Assembled(nf, big, nforms, nanchors, lf) : big \in BigSets(nf) } :
            nf \in 0..MaxFiles, nforms \in 0..MaxRecords, nanchors \in {0, MaxRecords},
            lf \in LongFields }

\* those with every collection over its cap
FullPayloads ==
    { Assembled(MaxFiles, {1}, MaxRecords, MaxRecords, lf) : lf \in LongFields }

InitShrink(payloads) ==
    /\ payload \in payloads
    /\ MAX_JS_FILES = FilesCap
    /\ MAX_JS_EVIDENCE_PER_FILE = HitsCap
    /\ MAX_HTML_EVIDENCE_PER_BUCKET = BucketCap
    /\ MAX_STR_FIELD \in StrFieldValues
    /\ limit \in Budgets(payload)
    /\ cur = PyNone
    /\ it = 0
    /\ pc = "call"
    /\ step = "none"
    /\ run = 1
    /\ first = PyNone
    /\ content = -1
    /\ alias = FALSE
    /\ changed = <<>>

JsOff ==
    /\ js_text = <<>>
    /\ evidences = <<>>
    /\ pat = 0
    /\ pos = 0
    /\ starts = <<>>
    /\ endpoints = <<>>
    /\ jpc = "off"

HtmlOff ==
    /\ soup = <<>>
    /\ html_site_url = PyNone
    /\ evidence = PyNone
    /\ hpos = 0
    /\ hpc = "off"

TextOff ==
    /\ t_s = <<>>
    /\ t_limit = 0
    /\ t_out = <<>>
    /\ tpc = "off"

Init == InitShrink(Payloads) /\ JsOff /\ HtmlOff /\ TextOff

-----------------------------------------------------------------------------
(* _shrink_payload, build_messages and a re-application, step by step *)

\* mutant of deepcopy: no copy is made, the caller's object itself is worked on
no_copy(obj) == [value |-> obj, shared |-> TRUE]

\* copy.deepcopy(obj): an equal value that shares nothing with obj
deepcopy(obj) == [value |-> obj, shared |-> FALSE]

\* cur = copy.deepcopy(payload)
Call ==
    /\ pc = "call"
    /\ cur' = deepcopy(payload).value
    /\ alias' = deepcopy(payload).shared
    /\ it' = 0
    /\ changed' = <<>>
    /\ step' = "none"
    /\ pc' = "loop"
    /\ UNCHANGED <<payload, limit, MAX_JS_FILES, MAX_JS_EVIDENCE_PER_FILE,
                   MAX_HTML_EVIDENCE_PER_BUCKET, MAX_STR_FIELD, run, first, content>>

InLoop == pc = "loop" /\ it < MaxIter

Frame == UNCHANGED <<limit, MAX_JS_FILES, MAX_JS_EVIDENCE_PER_FILE,
                     MAX_HTML_EVIDENCE_PER_BUCKET, MAX_STR_FIELD, run, first, content, alias>>

\* if size(cur) <= limit: break
Break ==
    /\ InLoop
    /\ size(cur) <= limit
    /\ pc' = "return"
    /\ step' = "break"
    /\ UNCHANGED <<payload, cur, it, changed>>
    /\ Frame

\* mutant of Iteration: the step is applied without the size test before it
IterationUnguarded(s) ==
    /\ InLoop
    /\ StepOf(cur) = s
    /\ cur' = LoopBody(cur)
    /\ payload' = (IF alias THEN cur' ELSE payload)   \* the steps assign in place
    /\ step' = s
    /\ changed' = (IF cur' # cur THEN Append(changed, s) ELSE changed)
    /\ it' = it + 1
    /\ pc' = "loop"
    /\ Frame

\* an iteration that applies the step named s
Iteration(s) ==
    /\ InLoop
    /\ StepOf(cur) = s
    /\ size(cur) > limit
    /\ cur' = LoopBody(cur)
    /\ payload' = (IF alias THEN cur' ELSE payload)   \* the steps assign in place
    /\ step' = s
    /\ changed' = (IF cur' # cur THEN Append(changed, s) ELSE changed)
    /\ it' = it + 1
    /\ pc' = "loop"
    /\ Frame

CutFiles == Iteration("files")
CutHits == Iteration("hits")
CutBuckets == Iteration("buckets")
Truncate == Iteration("truncate")

\* range(20) is exhausted
Exhausted ==
    /\ pc = "loop"
    /\ it >= MaxIter
    /\ pc' = "return"
    /\ step' = "exhausted"
    /\ UNCHANGED <<payload, cur, it, changed>>
    /\ Frame

\* return cur
Return ==
    /\ pc = "return"
    /\ pc' = "returned"
    /\ first' = IF run = 1 THEN cur ELSE first
    /\ UNCHANGED <<payload, limit, MAX_JS_FILES, MAX_JS_EVIDENCE_PER_FILE,
                   MAX_HTML_EVIDENCE_PER_BUCKET, MAX_STR_FIELD, cur, it, step, run, content,
                   alias, changed>>

\* build_messages: the user message is json.dumps(user_payload_shrunk, ensure_ascii=False)
UserContentLen(shrunk) == JsonLen(shrunk, FALSE)

BuildMessages ==
    /\ pc = "returned"
    /\ run = 1
    /\ content' = UserContentLen(cur)
    /\ pc' = "sent"
    /\ UNCHANGED <<payload, limit, MAX_JS_FILES, MAX_JS_EVIDENCE_PER_FILE,
                   MAX_HTML_EVIDENCE_PER_BUCKET, MAX_STR_FIELD, cur, it, step, run, first,
                   alias, changed>>

\* _shrink_payload applied to its own output, same budget and limits
Reapply ==
    /\ pc = "sent"
    /\ run = 1
    /\ payload' = cur
    /\ run' = 2
    /\ pc' = "call"
    /\ UNCHANGED <<limit, MAX_JS_FILES, MAX_JS_EVIDENCE_PER_FILE,
                   MAX_HTML_EVIDENCE_PER_BUCKET, MAX_STR_FIELD, cur, it, step, first, content,
                   alias, changed>>

Next ==
    \/ (Call /\ UNCHANGED <<jsVars, htmlVars, textVars>>)
    \/ (Break /\ UNCHANGED <<jsVars, htmlVars, textVars>>)
    \/ (CutFiles /\ UNCHANGED <<jsVars, htmlVars, textVars>>)
    \/ (CutHits /\ UNCHANGED <<jsVars, htmlVars, textVars>>)
    \/ (CutBuckets /\ UNCHANGED <<jsVars, htmlVars, textVars>>)
    \/ (Truncate /\ UNCHANGED <<jsVars, htmlVars, textVars>>)
    \/ (Exhausted /\ UNCHANGED <<jsVars, htmlVars, textVars>>)
    \/ (Return /\ UNCHANGED <<jsVars, htmlVars, textVars>>)
    \/ (BuildMessages /\ UNCHANGED <<jsVars, htmlVars, textVars>>)
    \/ (Reapply /\ UNCHANGED <<jsVars, htmlVars, textVars>>)

Spec == Init /\ [][Next]_vars

-----------------------------------------------------------------------------
(* analyze_js, match by match *)

SampleLines == {s_const_line, s_eval_line, s_inner_line, s_paren_line,
                s_fetch_line, s_open_line}
Separators == {<<10>>, <<13, 10>>, <<13>>, <<8232>>}

\* the site_url the scripts are analysed with
JsSiteUrl == PyStr(s_site_url)

RECURSIVE JoinLines(_, _, _)
JoinLines(ls, sep, trailing) ==
    IF Len(ls) = 0 THEN <<>>
    ELSE IF Len(ls) = 1 THEN ls[1] \o (IF trailing THEN sep ELSE <<>>)
    ELSE ls[1] \o sep \o JoinLines(Tail(ls), sep, trailing)

JsTexts ==
    { JoinLines(ls, sep, trailing) :
        ls \in UNION {[1..n -> SampleLines] : n \in 0..MaxLines},
        sep \in Separators, trailing \in BOOLEAN }

ShrinkOff ==
    /\ payload = PyNone
    /\ limit = 0
    /\ MAX_JS_FILES = FilesCap
    /\ MAX_JS_EVIDENCE_PER_FILE = HitsCap
    /\ MAX_HTML_EVIDENCE_PER_BUCKET = BucketCap
    /\ MAX_STR_FIELD = 0
    /\ cur = PyNone
    /\ it = 0
    /\ pc = "off"
    /\ step = "none"
    /\ run = 1
    /\ first = PyNone
    /\ content = -1
    /\ alias = FALSE
    /\ changed = <<>>

InitJs ==
    /\ ShrinkOff
    /\ HtmlOff
    /\ TextOff
    /\ js_text \in JsTexts
    /\ evidences = <<>>
    /\ pat = 1
    /\ pos = 0
    /\ starts = <<>>
    /\ endpoints = <<>>
    /\ jpc = "scan"

\* the body of `for m in re.finditer(pattern, js_text, flags=re.IGNORECASE)`
JsMatch ==
    /\ jpc = "scan"
    /\ pat <= Len(JS_PATTERNS)
    /\ FindFrom(JS_PATTERNS[pat], js_text, pos) # -1
    /\ LET start == FindFrom(JS_PATTERNS[pat], js_text, pos)
       IN  /\ evidences' = Append(evidences, Evidence(JS_PATTERNS[pat], js_text, s_a_js, start))
           /\ starts' = Append(starts, start)
           /\ pos' = MatchEnd(JS_PATTERNS[pat], js_text, start)
    /\ UNCHANGED <<js_text, pat, endpoints, jpc>>

\* the pattern has no further match: on to the next of JS_PATTERNS
JsNextPattern ==
    /\ jpc = "scan"
    /\ pat <= Len(JS_PATTERNS)
    /\ FindFrom(JS_PATTERNS[pat], js_text, pos) = -1
    /\ pat' = pat + 1
    /\ pos' = 0
    /\ UNCHANGED <<js_text, evidences, starts, endpoints, jpc>>

\* JS_PATTERNS is exhausted: endpoints = [], and the first endpoint loop starts
JsPatternsDone ==
    /\ jpc = "scan"
    /\ pat > Len(JS_PATTERNS)
    /\ endpoints' = <<>>
    /\ pos' = 0
    /\ jpc' = "fetch"
    /\ UNCHANGED <<js_text, evidences, starts, pat>>

\* the body of `for m in re.finditer(<fetch pattern>, js_text)`
JsFetchEndpoint ==
    /\ jpc = "fetch"
    /\ FindFrom(FETCH_ENDPOINT, js_text, pos) # -1
    /\ LET start == FindFrom(FETCH_ENDPOINT, js_text, pos)
       IN  /\ endpoints' = Append(endpoints, FetchEndpoint(js_text, s_a_js, JsSiteUrl, start))
           /\ pos' = MatchEnd(FETCH_ENDPOINT, js_text, start)
    /\ UNCHANGED <<js_text, evidences, starts, pat, jpc>>

\* no further fetch match: on to the open(...) loop
JsFetchDone ==
    /\ jpc = "fetch"
    /\ FindFrom(FETCH_ENDPOINT, js_text, pos) = -1
    /\ pos' = 0
    /\ jpc' = "xhr"
    /\ UNCHANGED <<js_text, evidences, starts, endpoints, pat>>

\* the body of `for m in re.finditer(<open pattern>, js_text, flags=re.IGNORECASE)`
JsXhrEndpoint ==
    /\ jpc = "xhr"
    /\ FindFrom(XHR_ENDPOINT, js_text, pos) # -1
    /\ LET start == FindFrom(XHR_ENDPOINT, js_text, pos)
       IN  /\ endpoints' = Append(endpoints, XhrEndpoint(js_text, s_a_js, JsSiteUrl, start))
           /\ pos' = MatchEnd(XHR_ENDPOINT, js_text, start)
    /\ UNCHANGED <<js_text, evidences, starts, pat, jpc>>

\* no further open(...) match: return {..., "evidences": evidences, "endpoints": endpoints}
JsReturn ==
    /\ jpc = "xhr"
    /\ FindFrom(XHR_ENDPOINT, js_text, pos) = -1
    /\ jpc' = "done"
    /\ UNCHANGED <<js_text, evidences, starts, endpoints, pat, pos>>

NextJs ==
    \/ (JsMatch /\ UNCHANGED <<shrinkVars, htmlVars, textVars>>)
    \/ (JsNextPattern /\ UNCHANGED <<shrinkVars, htmlVars, textVars>>)
    \/ (JsPatternsDone /\ UNCHANGED <<shrinkVars, htmlVars, textVars>>)
    \/ (JsFetchEndpoint /\ UNCHANGED <<shrinkVars, htmlVars, textVars>>)
    \/ (JsFetchDone /\ UNCHANGED <<shrinkVars, htmlVars, textVars>>)
    \/ (JsXhrEndpoint /\ UNCHANGED <<shrinkVars, htmlVars, textVars>>)
    \/ (JsReturn /\ UNCHANGED <<shrinkVars, htmlVars, textVars>>)

SpecJs == InitJs /\ [][NextJs]_vars

-----------------------------------------------------------------------------
(* analyze_html, element by element. The pages of this model hold anchors   *)
(* and iframes; the other loops of analyze_html find nothing in them.       *)

AnchorAttrs ==
    { <<Item("href", PyStr(s_href)), Item("target", PyStr(s_blank))>>,
      <<Item("href", PyStr(s_href)), Item("target", PyStr(s_blank)),
        Item("rel", PyList(<<PyStr(s_noopener), PyStr(s_noreferrer)>>))>>,
      <<Item("href", PyStr(s_href)), Item("target", PyStr(s_blank)),
        Item("rel", PyList(<<PyStr(s_nofollow)>>))>>,
      <<Item("href", PyStr(s_href)), Item("target", PyStr(s_blank)),
        Item("rel", PyList(<<PyStr(s_noopenerx)>>))>>,
      <<Item("target", PyStr(s_blank))>>,
      <<Item("href", PyStr(s_rel_path)), Item("rel", PyList(<<PyStr(s_nofollow)>>))>>,
      <<Item("href", PyStr(s_js_href)), Item("target", PyStr(s_self))>>,
      <<Item("href", PyStr(s_bad_netloc)), Item("target", PyStr(s_blank))>>,
      <<Item("href", PyStr(s_other_origin)), Item("target", PyStr(s_blank)),
        Item("rel", PyList(<<PyStr(s_noreferrer), PyStr(s_noopener)>>))>> }

IframeAttrs ==
    { <<Item("src", PyStr(s_data_uri))>>,
      <<Item("src", PyStr(s_DATA_uri))>>,
      <<Item("src", PyStr(s_href))>>,
      <<Item("src", PyStr(s_bad_netloc))>>,
      <<>> }

Elements ==
    {Element("a", attrs) : attrs \in AnchorAttrs}
        \cup {Element("iframe", attrs) : attrs \in IframeAttrs}

Pages == UNION {[1..n -> Elements] : n \in 0..MaxElems}

InitHtml ==
    /\ ShrinkOff
    /\ JsOff
    /\ TextOff
    /\ soup \in Pages
    /\ html_site_url \in {PyNone, PyStr(s_site_dir)}
    /\ evidence = EmptyEvidence
    /\ hpos = 1
    /\ hpc = "anchors"

\* one iteration of `for a in soup.find_all("a", href=True)`
HtmlAnchor ==
    /\ hpc = "anchors"
    /\ NextFound(soup, hpos, "a", "href") # 0
    /\ LET i == NextFound(soup, hpos, "a", "href")
       IN  /\ evidence' = AnchorBody(evidence, html_site_url, soup[i])
           /\ hpos' = i + 1
    /\ UNCHANGED <<soup, html_site_url, hpc>>

\* no further anchor: on to the iframes
HtmlAnchorsDone ==
    /\ hpc = "anchors"
    /\ NextFound(soup, hpos, "a", "href") = 0
    /\ hpc' = "iframes"
    /\ hpos' = 1
    /\ UNCHANGED <<soup, html_site_url, evidence>>

\* one iteration of `for iframe in soup.find_all("iframe")`
HtmlIframe ==
    /\ hpc = "iframes"
    /\ NextFound(soup, hpos, "iframe", "") # 0
    /\ LET i == NextFound(soup, hpos, "iframe", "")
       IN  /\ evidence' = IframeBody(evidence, html_site_url, soup[i])
           /\ hpos' = i + 1
    /\ UNCHANGED <<soup, html_site_url, hpc>>

\* no further iframe; the page holds no script tag and no secret: return evidence
HtmlReturn ==
    /\ hpc = "iframes"
    /\ NextFound(soup, hpos, "iframe", "") = 0
    /\ hpc' = "done"
    /\ UNCHANGED <<soup, html_site_url, evidence, hpos>>

NextHtml ==
    \/ (HtmlAnchor /\ UNCHANGED <<shrinkVars, jsVars, textVars>>)
    \/ (HtmlAnchorsDone /\ UNCHANGED <<shrinkVars, jsVars, textVars>>)
    \/ (HtmlIframe /\ UNCHANGED <<shrinkVars, jsVars, textVars>>)
    \/ (HtmlReturn /\ UNCHANGED <<shrinkVars, jsVars, textVars>>)

SpecHtml == InitHtml /\ [][NextHtml]_vars

-----------------------------------------------------------------------------
(* _truncate_text on its own *)

\* the strings a, ab, abc, ...
Letters(n) == [i \in 1..n |-> 96 + i]

InitText ==
    /\ ShrinkOff
    /\ JsOff
    /\ HtmlOff
    /\ t_s \in {Letters(n) : n \in 0..MaxStrLen}
    /\ t_limit \in 0..MaxStrLen
    /\ t_out = <<>>
    /\ tpc = "call"

\* _truncate_text(s, limit), s a str
TruncateText ==
    /\ tpc = "call"
    /\ t_out' = _truncate_text(t_s, t_limit)
    /\ tpc' = "returned"
    /\ UNCHANGED <<t_s, t_limit>>

NextText == TruncateText /\ UNCHANGED <<shrinkVars, jsVars, htmlVars>>

SpecText == InitText /\ [][NextText]_vars

\* The loop is sequential code: a step that can be taken is taken.
InitFull == InitShrink(FullPayloads) /\ JsOff /\ HtmlOff /\ TextOff
FairSpec == InitFull /\ [][Next]_vars /\ WF_vars(Next)

-----------------------------------------------------------------------------
(* Properties of _shrink_payload and build_messages *)

Meta(c) == Get(HtmlHigh(c), "meta", PyDict(<<>>))
Bucket(c, key) == Get(HtmlHigh(c), key, PyList(<<>>)).v
OuterHtml(rec) == Get(rec, "outer_html", PyNone)

\* C1: every HTML evidence record still present in the working copy, and so in
\* the structure returned, carries the outer_html of the same record of the input.
C1_OuterHtmlUnaltered ==
    cur # PyNone =>
        \A b \in 1..Len(HtmlHigh(cur).v) :
            LET e == HtmlHigh(cur).v[b]
            IN  e.v.t = "list" =>
                  /\ Len(e.v.v) <= Len(Bucket(payload, e.k))
                  /\ \A i \in 1..Len(e.v.v) :
                        /\ HasKey(e.v.v[i], "outer_html")
                        /\ OuterHtml(e.v.v[i]) = OuterHtml(Bucket(payload, e.k)[i])

\* a form whose outer_html is longer than MAX_STR_FIELD is returned with its
\* action truncated
C1_Witness ==
    /\ pc = "returned"
    /\ run = 1
    /\ \E i \in 1..Len(Bucket(cur, "forms")) :
          /\ Len(OuterHtml(Bucket(cur, "forms")[i]).v) > MAX_STR_FIELD
          /\ Get(Bucket(cur, "forms")[i], "action", PyNone)
                # Get(Bucket(payload, "forms")[i], "action", PyNone)

\* C2: the tag markup of the CSP meta element and of the charset meta element is
\* the same in the working copy, and so in the structure returned, as in the input.
C2_MetaMarkupUnaltered ==
    cur # PyNone =>
        /\ Get(Meta(cur), "csp_meta_tag", PyNone) = Get(Meta(payload), "csp_meta_tag", PyNone)
        /\ Get(Meta(cur), "charset", PyNone) = Get(Meta(payload), "charset", PyNone)

\* C3: when the structure with every cap and the string truncation applied fits
\* the budget, the structure returned fits it, and so does the user message.
C3_WithinBudgetWhenAchievable ==
    /\ (pc = "returned" /\ size(Reduced(payload)) <= limit) => size(cur) <= limit
    /\ (pc = "sent" /\ size(Reduced(payload)) <= limit) => content <= limit

\* the budget is met by the fourth iteration only, and the message is sent
C3_Witness ==
    /\ pc = "sent"
    /\ it = 4
    /\ size(payload) > limit
    /\ size(Reduced(payload)) <= limit
    /\ content <= limit

\* C4: the serialized size never increases from one iteration to the next.
C4_SizeNeverIncreases ==
    [][(pc = "loop" /\ pc' = "loop") => size(cur') <= size(cur)]_vars

\* C5: the loop runs at most 20 iterations, every call returns, and what it
\* returns is a structure, also when the budget is unmet at the cap.
C5_TerminatesWithinCap ==
    /\ [](it <= 20)
    /\ [](pc = "returned" => cur.t = "dict")
    /\ ((pc = "call") ~> (pc = "returned"))

\* the cap is reached with the budget unmet, a protected outer_html alone
\* exceeding it
C5_Witness ==
    /\ pc = "returned"
    /\ step = "exhausted"
    /\ it = 20
    /\ size(cur) > limit
    /\ \E i \in 1..Len(Bucket(cur, "forms")) :
          JsonLen(OuterHtml(Bucket(cur, "forms")[i]), FALSE) > limit

\* C6: _shrink_payload applied to its own output returns that output.
C6_Idempotent ==
    (run = 2 /\ pc = "returned") => cur = first

RECURSIVE ElideAll(_)
\* node with every string longer than MAX_STR_FIELD replaced by its elision, at
\* any depth, as the value of a key other than outer_html or as a list element
ElideAll(node) ==
    IF node.t = "str"
    THEN (IF Len(node.v) > MAX_STR_FIELD
          THEN PyStr(_truncate_text(node.v, MAX_STR_FIELD)) ELSE node)
    ELSE IF node.t = "list" THEN PyList([i \in 1..Len(node.v) |-> ElideAll(node.v[i])])
    ELSE IF node.t = "dict"
         THEN PyDict([i \in 1..Len(node.v) |->
                        IF node.v[i].k = "outer_html" THEN node.v[i]
                        ELSE Item(node.v[i].k, ElideAll(node.v[i].v))])
    ELSE node

\* C15: the string-truncation step replaces every string outside outer_html
\* that is longer than MAX_STR_FIELD, at any depth, in a record or in a list.
C15_TruncationReachesEveryString ==
    [][(pc = "loop" /\ pc' = "loop" /\ step' = "truncate") => cur' = ElideAll(cur)]_vars

\* C16: a payload whose serialized size is within the budget is returned as it
\* was given, whatever caps or string maximum it exceeds.
C16_WithinBudgetUnchanged ==
    (pc = "returned" /\ size(payload) <= limit) => cur = payload

\* a payload within budget with its files, a hit list, a bucket and a string over
\* their maxima has been returned
C16_Witness ==
    /\ pc = "returned"
    /\ run = 1
    /\ size(payload) <= limit
    /\ Len(JsFiles(payload)) > MAX_JS_FILES
    /\ HitsOver(payload)
    /\ BucketsOver(payload)
    /\ payload # ElideAll(payload)
    /\ cur = payload

\* the hits held by the files of a structure, as (file, hit) positions
HitPositions(files) ==
    UNION {{<<i, j>> : j \in 1..Len(Evidences(files[i]))} : i \in 1..Len(files)}

Summary(c) == Get(Get(c, "javascript", PyDict(<<>>)), "summary", PyDict(<<>>))

\* C18: in the structure returned, summary.total_files is the number of files
\* held and summary.total_hits the number of hits held over those files.
C18_SummaryConsistent ==
    pc = "returned" =>
        /\ Get(Summary(cur), "total_files", PyNone) = PyInt(Len(JsFiles(cur)))
        /\ Get(Summary(cur), "total_hits", PyNone)
              = PyInt(Cardinality(HitPositions(JsFiles(cur))))

ChangesBy(k) == Cardinality({i \in 1..Len(changed) : changed[i] = k})

\* C21: in a run each structural cut changes the structure in at most one
\* iteration, at most four iterations change it at all, one per step kind, and
\* when the 20 iterations are used up one more would not make it smaller.
C21_ConvergesWithinCap ==
    /\ \A k \in {"files", "hits", "buckets", "truncate"} : ChangesBy(k) <= 1
    /\ Len(changed) <= 4
    /\ step = "exhausted" => size(LoopBody(cur)) >= size(cur)

RECURSIVE StringsOf(_)
\* the string values held anywhere in node
StringsOf(node) ==
    IF node.t = "str" THEN {node.v}
    ELSE IF node.t = "list" THEN UNION {StringsOf(node.v[i]) : i \in 1..Len(node.v)}
    ELSE IF node.t = "dict" THEN UNION {StringsOf(node.v[i].v) : i \in 1..Len(node.v)}
    ELSE {}

\* what a step did, read off the structure before and after it
FilesCutStep == Len(JsFiles(cur')) < Len(JsFiles(cur))
HitsCutStep ==
    \E i \in 1..Len(JsFiles(cur')) :
        /\ i <= Len(JsFiles(cur))
        /\ Len(Evidences(JsFiles(cur')[i])) < Len(Evidences(JsFiles(cur)[i]))
BucketsCutStep ==
    \E b \in 1..Len(HtmlHigh(cur).v) :
        /\ HtmlHigh(cur).v[b].v.t = "list"
        /\ Len(HtmlHigh(cur').v[b].v.v) < Len(HtmlHigh(cur).v[b].v.v)
StringCutStep == ~(StringsOf(cur') \subseteq StringsOf(cur))

\* C7: a step changes the structure only in an iteration that starts over budget;
\* a hit list is cut only with the file count within its maximum, a bucket only
\* with no JS cut applicable, a string only with no structural cut applicable.
C7_PriorityOrder ==
    [][(cur # PyNone /\ cur' # cur) =>
          /\ size(cur) > limit
          /\ Len(JsFiles(cur)) <= MAX_JS_FILES \/ ~HitsCutStep
          /\ (Len(JsFiles(cur)) <= MAX_JS_FILES /\ ~HitsOver(cur)) \/ ~BucketsCutStep
          /\ \/ /\ Len(JsFiles(cur)) <= MAX_JS_FILES
                /\ ~HitsOver(cur)
                /\ ~BucketsOver(cur)
             \/ ~StringCutStep]_vars

\* files, hit lists and buckets were cut in three iterations and the fourth
\* truncated strings
C7_Witness ==
    /\ pc = "loop"
    /\ step = "truncate"
    /\ it = 4
    /\ Len(JsFiles(cur)) < Len(JsFiles(payload))
    /\ Len(Bucket(cur, "forms")) < Len(Bucket(payload, "forms"))
    /\ ~(StringsOf(cur) \subseteq StringsOf(payload))

\* the first n elements of xs, in order
FirstN(xs, n) == [i \in 1..(IF Len(xs) < n THEN Len(xs) ELSE n) |-> xs[i]]

\* C8: a cut leaves exactly the first MAX_JS_FILES files of the input, the first
\* MAX_JS_EVIDENCE_PER_FILE hits of each file and the first
\* MAX_HTML_EVIDENCE_PER_BUCKET records of each bucket, in their original order.
C8_PrefixPreserving ==
    [][(cur # PyNone /\ cur' # cur) =>
          /\ FilesCutStep => JsFiles(cur') = FirstN(JsFiles(payload), MAX_JS_FILES)
          /\ HitsCutStep =>
                \A i \in 1..Len(JsFiles(cur')) :
                    Evidences(JsFiles(cur')[i])
                        = FirstN(Evidences(JsFiles(payload)[i]), MAX_JS_EVIDENCE_PER_FILE)
          /\ BucketsCutStep =>
                \A b \in 1..Len(HtmlHigh(cur').v) :
                    LET e == HtmlHigh(cur').v[b]
                    IN  e.v.t = "list" =>
                          e.v.v = FirstN(Bucket(payload, e.k), MAX_HTML_EVIDENCE_PER_BUCKET)]_vars

\* the file cut, the hit cut and the bucket cut have each been applied
C8_Witness ==
    /\ pc = "loop"
    /\ step = "buckets"
    /\ it = 3
    /\ Len(JsFiles(cur)) < Len(JsFiles(payload))
    /\ Len(Evidences(JsFiles(cur)[1])) < Len(Evidences(JsFiles(payload)[1]))
    /\ Len(Bucket(cur, "forms")) < Len(Bucket(payload, "forms"))

-----------------------------------------------------------------------------
(* Properties of analyze_js *)

LineNoOf(hit) == Get(hit, "line_no", PyNone).v
ContextOf(hit) == Get(hit, "context", PyNone).v

\* C9: the context of every hit is the line before the matched line (when there
\* is one), the matched line, and the line after it (when there is one).
C9_ContextWindow ==
    \A h \in 1..Len(evidences) :
        LET lines == splitlines(js_text)
            n == LineNoOf(evidences[h])
            lo == IF n - 1 >= 1 THEN n - 1 ELSE 1
            hi == IF n + 1 <= Len(lines) THEN n + 1 ELSE Len(lines)
            ctx == ContextOf(evidences[h])
        IN  /\ Len(ctx) = hi - lo + 1
            /\ \A j \in 1..Len(ctx) :
                  /\ Get(ctx[j], "line", PyNone) = PyInt(lo + j - 1)
                  /\ Get(ctx[j], "code", PyNone) = PyStr(lines[lo + j - 1])

IsNewline(c) == c = 10

\* C10: the line_no of every hit is 1 plus the number of \n characters before the
\* start of its match.
C10_LineNumber ==
    \A h \in 1..Len(evidences) :
        LineNoOf(evidences[h])
            = 1 + Len(SelectSeq(SubSeq(js_text, 1, starts[h]), IsNewline))

\* a match that starts after the first line has been reported
C10_Witness ==
    /\ jpc = "done"
    /\ \E h \in 1..Len(evidences) : starts[h] > 0 /\ LineNoOf(evidences[h]) >= 2

LineOf(entry) == Get(entry, "line", PyNone).v
CodeOf(entry) == Get(entry, "code", PyNone)

\* C11: every context entry of every hit names a line between 1 and the number
\* of lines of the file and carries the text of that line; a window holds at most
\* 3 entries, with consecutive ascending line numbers.
C11_ContextInRange ==
    \A h \in 1..Len(evidences) :
        LET lines == splitlines(js_text)
            ctx == ContextOf(evidences[h])
        IN  /\ Len(ctx) <= 3
            /\ \A j \in 1..Len(ctx) :
                  /\ LineOf(ctx[j]) >= 1
                  /\ LineOf(ctx[j]) <= Len(lines)
                  /\ CodeOf(ctx[j]) = PyStr(lines[LineOf(ctx[j])])
                  /\ j > 1 => LineOf(ctx[j]) = LineOf(ctx[j - 1]) + 1

\* one hit has a full window of 3 entries, another one a window clipped at the
\* end of the file
C11_Witness ==
    /\ jpc = "done"
    /\ \E h \in 1..Len(evidences) : Len(ContextOf(evidences[h])) = 3
    /\ \E h \in 1..Len(evidences) :
          /\ Len(ContextOf(evidences[h])) < 3
          /\ LineNoOf(evidences[h]) + 2 > Len(splitlines(js_text))

\* the records of seq whose field key is the string val
CountOf(seq, key, val) ==
    Cardinality({i \in 1..Len(seq) : Get(seq[i], key, PyNone) = PyStr(val)})

\* C17: per file there are as many fetch endpoints as fetch_call hits and as many
\* xhr endpoints as xhr_open hits, each xhr endpoint carrying its method.
C17_SameCallSites ==
    jpc = "done" =>
        /\ CountOf(endpoints, "type", s_fetch) = CountOf(evidences, "pattern", s_fetch_call)
        /\ CountOf(endpoints, "type", s_xhr) = CountOf(evidences, "pattern", s_xhr_open)
        /\ \A i \in 1..Len(endpoints) :
              Get(endpoints[i], "type", PyNone) = PyStr(s_xhr) =>
                  /\ Get(endpoints[i], "method", PyNone).t = "str"
                  /\ Len(Get(endpoints[i], "method", PyNone).v) > 0

\* the source line that holds offset start: the text between the line breaks
\* around it
LineAt(text, start) ==
    LET before == {j \in 1..start : text[j] \in LineBreaks}
        after == {j \in (start + 1)..Len(text) : text[j] \in LineBreaks}
        lo == IF before = {} THEN 1 ELSE (CHOOSE j \in before : \A m \in before : m <= j) + 1
        hi == IF after = {} THEN Len(text) ELSE (CHOOSE j \in after : \A m \in after : j <= m) - 1
    IN  SubSeq(text, lo, hi)

\* C19: the context of every hit holds an entry whose line number is the hit's
\* line_no and whose code is the source line in which the match starts.
C19_MatchedLineInContext ==
    \A h \in 1..Len(evidences) :
        \E j \in 1..Len(ContextOf(evidences[h])) :
            /\ LineOf(ContextOf(evidences[h])[j]) = LineNoOf(evidences[h])
            /\ CodeOf(ContextOf(evidences[h])[j]) = PyStr(LineAt(js_text, starts[h]))

-----------------------------------------------------------------------------
(* Properties of _truncate_text *)

\* C14: a string longer than the limit L comes back as its first floor(0.6 L)
\* characters, the elision marker and its last floor(0.3 L) characters; a string
\* not longer than L comes back unchanged.
C14_HeadMarkerTail ==
    tpc = "returned" =>
        LET n == Len(t_s)
            h == (6 * t_limit) \div 10
            k == (3 * t_limit) \div 10
        IN  IF n > t_limit
            THEN t_out = [i \in 1..h |-> t_s[i]] \o <<10, 46, 46, 46, 10>>
                            \o [i \in 1..k |-> t_s[n - k + i]]
            ELSE t_out = t_s

-----------------------------------------------------------------------------
(* Properties of abs_url and analyze_html *)

\* the (raw reference, resolved reference) pairs recorded in the evidence
ResolvedPairs ==
    UNION {{<<Get(Get(evidence, b, PyNone).v[i],
                  IF b = "iframes" THEN "src" ELSE "href", PyNone),
              Get(Get(evidence, b, PyNone).v[i],
                  IF b = "iframes" THEN "src_abs" ELSE "href_abs", PyNone)>> :
               i \in 1..Len(Get(evidence, b, PyList(<<>>)).v)} :
           b \in {"iframes", "target_blank_without_noopener", "links"}}

\* raw is a string that, leading whitespace dropped and lower-cased, begins data:
DataScheme(raw) ==
    /\ raw.t = "str"
    /\ \E n \in 0..Len(raw.v) :
          /\ \A j \in 1..n : IsSpace(raw.v[j])
          /\ Len(raw.v) >= n + 5
          /\ [j \in 1..5 |-> Lower(raw.v[n + j])] = <<100, 97, 116, 97, 58>>

\* C12: resolving a reference never raises; a data: reference is recorded
\* verbatim; any other non-empty reference is recorded as urljoin resolves it
\* against the base, or unchanged when urljoin fails.
C12_AbsUrlNeverRaises ==
    evidence # PyNone =>
        \A pair \in ResolvedPairs :
            LET raw == pair[1]
                res == pair[2]
                base == IF html_site_url = PyNone THEN <<>> ELSE html_site_url.v
            IN  /\ res # ValueError
                /\ DataScheme(raw) => res = raw
                /\ (raw.t = "str" /\ Len(raw.v) > 0 /\ ~DataScheme(raw)) =>
                      res = (IF urljoin(base, raw.v) = ValueError THEN raw
                             ELSE urljoin(base, raw.v))

\* with a base URL set, an iframe whose src is " DATA:..." is recorded with
\* src_abs equal to src, and a reference urljoin rejects is recorded unchanged
C12_Witness ==
    /\ hpc = "done"
    /\ html_site_url # PyNone
    /\ <<PyStr(s_DATA_uri), PyStr(s_DATA_uri)>> \in ResolvedPairs
    /\ <<PyStr(s_bad_netloc), PyStr(s_bad_netloc)>> \in ResolvedPairs

\* the rel tokens of an element
RelTokens(el) ==
    IF Attr(el, "rel").t = "list"
    THEN {Attr(el, "rel").v[i] : i \in 1..Len(Attr(el, "rel").v)}
    ELSE {}

\* an anchor with an href, target "_blank" and no rel token equal to noopener
BlankAnchor(el) ==
    /\ el.name = "a"
    /\ HasKey(el.attrs, "href")
    /\ Attr(el, "target") = PyStr(s_blank)
    /\ PyStr(s_noopener) \notin RelTokens(el)

\* C13: the target-blank-without-noopener bucket holds, in document order, a
\* record for exactly the anchors that declare an href, have target "_blank" and
\* have no rel token equal to noopener.
C13_TargetBlankBucket ==
    hpc = "done" =>
        LET recs == Get(evidence, "target_blank_without_noopener", PyList(<<>>)).v
            want == SelectSeq(soup, BlankAnchor)
        IN  [i \in 1..Len(recs) |-> OuterHtml(recs[i])]
                = [i \in 1..Len(want) |-> PyStr(outer(want[i]))]

====
